---- MODULE Spec2Model ----
(***************************************************************************)
(* Storm tracking and intensity estimation over a gridded time series:     *)
(*   8_track_typhoon.py              track_typhoon and its entry point     *)
(*   9_verify_tracking.py            verify_track_step                     *)
(*   11_calculate_typhoon_intensity.py  get_intensity_category,            *)
(*                                   calculate_intensity, its entry point  *)
(*   4_combine_netcdf.py, 6_combing_Latitude_and_longitude.py  assembly    *)
(*                                                                         *)
(* Units.  Coordinates and radii are whole degrees.  Wind components and   *)
(* wind magnitudes are hundredths of a m/s, correction factors are tenths, *)
(* so a corrected wind speed and the category thresholds are thousandths   *)
(* of a m/s (17.1 m/s is 17100).  Pressures are whole units.               *)
(***************************************************************************)
EXTENDS Integers, Sequences, FiniteSets, TLC

VARIABLES
    prog,               \* which script runs: "track", "intensity"
    pc,                 \* position in the running script
    config,             \* the loaded YAML configuration
    ds,                 \* the opened dataset
    start_lat, start_lon,
    search_radius_deg,
    correction_factor,
    current_lat, current_lon,
    step,               \* number of entries of times the loop has consumed
    track_data,         \* rows of track_typhoon
    results,            \* rows of calculate_intensity
    searches,           \* per loop iteration: the pressure window and its cells
    wind_searches,      \* per produced row: the wind window and its cells
    verified,           \* the selection of the last verify_track_step call
    outputs,            \* artifacts written by the entry point
    error,              \* the exception the entry point caught, or "none"
    raw_max_wind,       \* local_wind.max().item()
    max_wind,           \* the corrected wind speed
    intensity_cat,      \* the <<category, colour>> of max_wind
    found,              \* the files matching the search pattern
    file_paths,         \* sorted(glob.glob(search_pattern))
    datasets,           \* one entry per file: a dataset with its time, or None
    valid_datasets,
    combined_ds,
    saved               \* the dataset written to output_filepath, or None

trackVars == <<prog, pc, config, ds, start_lat, start_lon, search_radius_deg,
               correction_factor, current_lat, current_lon, step, track_data,
               results, searches, wind_searches, verified, outputs, error>>

trackVarsButPc ==
    <<prog, config, ds, start_lat, start_lon, search_radius_deg,
      correction_factor, current_lat, current_lon, step, track_data,
      results, searches, wind_searches, verified, outputs, error>>

catVars == <<raw_max_wind, max_wind, intensity_cat>>

combVars == <<found, file_paths, datasets, valid_datasets, combined_ds, saved>>

vars == <<trackVars, catVars, combVars>>

-----------------------------------------------------------------------------
(* Bounds of the model *)

\* number of entries on the time axis of the dataset
NT == 2

\* largest raw wind maximum classified, in hundredths of a m/s
MaxRawWind == 5200

\* largest correction factor tried, in tenths
MaxFactor == 15

\* largest number of files the search pattern matches
MaxFiles == 3

-----------------------------------------------------------------------------
(* Arithmetic and sequence helpers *)

Abs(x) == IF x < 0 THEN -x ELSE x

Min2(a, b) == IF a <= b THEN a ELSE b

Max2(a, b) == IF a >= b THEN a ELSE b

SetMin(S) == CHOOSE x \in S : \A y \in S : x <= y

SetMax(S) == CHOOSE x \in S : \A y \in S : x >= y

Reverse(s) == [k \in 1..Len(s) |-> s[Len(s) + 1 - k]]

RECURSIVE SqrtBetween(_, _, _)
SqrtBetween(n, lo, hi) ==
    IF lo >= hi THEN lo
    ELSE LET mid == (lo + hi + 1) \div 2
         IN IF mid * mid <= n THEN SqrtBetween(n, mid, hi)
                              ELSE SqrtBetween(n, lo, mid - 1)

\* np.sqrt; the modelled wind components only give perfect squares, on which
\* the floating-point root is exact
Sqrt(n) == SqrtBetween(n, 0, Min2(n, 46340))

-----------------------------------------------------------------------------
(* The dataset: xr.open_dataset(file_path).  Axes and arrays are kept in    *)
(* storage order: mslp[t][i][j] is the value at latitude[i], longitude[j].  *)

LatAsc == <<0, 4, 8>>

LonAsc == <<100, 104, 108>>

Times == [k \in 1..NT |-> k]

\* cells where a pressure low may sit
LowCells == {<<0, 100>>, <<4, 108>>, <<8, 104>>}

\* one or two equally deep lows
LowSets == {L \in SUBSET LowCells : L # {} /\ Cardinality(L) <= 2}

\* pressure rises with the distance to the nearest low
Pressure(L, la, lo) ==
    1000 + SetMin({Abs(la - l[1]) + Abs(lo - l[2]) : l \in L})

\* <<u, v>> of the 10 m wind: 5.00, 12.25 and 40.00 m/s in magnitude
CalmWind == <<300, -400>>

PeakWinds == {<<735, 980>>, <<-2400, 3200>>}

\* a wind field: calm everywhere but at one peak cell
WindParams == {[cell |-> <<4, 108>>, wind |-> w] : w \in PeakWinds}
                  \cup {[cell |-> <<0, 100>>, wind |-> CalmWind]}

WindAt(wp, la, lo) == IF <<la, lo>> = wp.cell THEN wp.wind ELSE CalmWind

AllVars == {"mean_sea_level_pressure", "u_component_of_wind_10m",
            "v_component_of_wind_10m"}

\* the dataset holding the fields lows[t], winds[t] on the given stored axes
MakeDataset(lats, lons, lows, winds, vs) ==
    [ latitude  |-> lats,
      longitude |-> lons,
      time      |-> Times,
      vars      |-> vs,
      mslp |-> [t \in 1..NT |-> [i \in 1..Len(lats) |-> [j \in 1..Len(lons) |->
                   Pressure(lows[t], lats[i], lons[j])]]],
      u    |-> [t \in 1..NT |-> [i \in 1..Len(lats) |-> [j \in 1..Len(lons) |->
                   WindAt(winds[t], lats[i], lons[j])[1]]]],
      v    |-> [t \in 1..NT |-> [i \in 1..Len(lats) |-> [j \in 1..Len(lons) |->
                   WindAt(winds[t], lats[i], lons[j])[2]]]] ]

\* the same grid with the latitude axis stored in the other order
FlipLat(d) ==
    [d EXCEPT !.latitude = Reverse(d.latitude),
              !.mslp = [t \in 1..NT |-> Reverse(d.mslp[t])],
              !.u    = [t \in 1..NT |-> Reverse(d.u[t])],
              !.v    = [t \in 1..NT |-> Reverse(d.v[t])]]

\* the same grid with the longitude axis stored in the other order
FlipLon(d) ==
    [d EXCEPT !.longitude = Reverse(d.longitude),
              !.mslp = [t \in 1..NT |-> [i \in 1..Len(d.latitude) |-> Reverse(d.mslp[t][i])]],
              !.u    = [t \in 1..NT |-> [i \in 1..Len(d.latitude) |-> Reverse(d.u[t][i])]],
              !.v    = [t \in 1..NT |-> [i \in 1..Len(d.latitude) |-> Reverse(d.v[t][i])]]]

\* the coordinates of the grid's cells
GridCells(d) ==
    {<<d.latitude[i], d.longitude[j]>> : i \in 1..Len(d.latitude), j \in 1..Len(d.longitude)}

LatIndex(d, la) == CHOOSE i \in 1..Len(d.latitude) : d.latitude[i] = la

LonIndex(d, lo) == CHOOSE j \in 1..Len(d.longitude) : d.longitude[j] = lo

\* value of the pressure field at a cell given by its coordinates
PressureAt(d, t, c) == d.mslp[t][LatIndex(d, c[1])][LonIndex(d, c[2])]

\* wind_speed = np.sqrt(u**2 + v**2), as an array in storage order
WindSpeed(d) ==
    [t \in 1..NT |-> [i \in 1..Len(d.latitude) |-> [j \in 1..Len(d.longitude) |->
        Sqrt(d.u[t][i][j] * d.u[t][i][j] + d.v[t][i][j] * d.v[t][i][j])]]]

WindSpeedAt(d, t, c) == WindSpeed(d)[t][LatIndex(d, c[1])][LonIndex(d, c[2])]

-----------------------------------------------------------------------------
(* Label-based selection: DataArray.sel(latitude=slice, longitude=slice)    *)

\* pandas Index.is_monotonic_increasing (true of an axis of one entry)
IsIncreasing(axis) == \A k \in 1..(Len(axis) - 1) : axis[k] < axis[k + 1]

\* positions a label slice selects on a monotonic axis, both ends inclusive:
\* on an increasing axis start <= x <= stop, on a decreasing one
\* start >= x >= stop; a slice given against the axis order selects nothing
SliceSel(axis, sl) ==
    LET keep(k) == IF IsIncreasing(axis)
                   THEN sl.start <= axis[k] /\ axis[k] <= sl.stop
                   ELSE sl.start >= axis[k] /\ axis[k] >= sl.stop
    IN SelectSeq([k \in 1..Len(axis) |-> k], keep)

\* the search box around a centre
Window(c_lat, c_lon, radius) ==
    [lat_min |-> c_lat - radius, lat_max |-> c_lat + radius,
     lon_min |-> c_lon - radius, lon_max |-> c_lon + radius]

\* a slice that always takes the latitude axis for a descending one
LatSliceDescending(d, w) ==
    [start |-> Max2(w.lat_min, w.lat_max), stop |-> Min2(w.lat_min, w.lat_max)]

\* lat_slice: descending order assumed, ascending if latitude[0] < latitude[-1]
LatSlice(d, w) ==
    IF d.latitude[1] < d.latitude[Len(d.latitude)]
    THEN [start |-> Min2(w.lat_min, w.lat_max), stop |-> Max2(w.lat_min, w.lat_max)]
    ELSE [start |-> Max2(w.lat_min, w.lat_max), stop |-> Min2(w.lat_min, w.lat_max)]

\* lon_slice = slice(lon_min, lon_max)
LonSlice(d, w) == [start |-> w.lon_min, stop |-> w.lon_max]

\* the selected positions on each axis, in storage order
Sel(d, w) ==
    [lat |-> SliceSel(d.latitude, LatSlice(d, w)),
     lon |-> SliceSel(d.longitude, LonSlice(d, w))]

Size(sel) == Len(sel.lat) * Len(sel.lon)

\* coordinates of the selected cells
SelCells(d, sel) ==
    {<<d.latitude[sel.lat[a]], d.longitude[sel.lon[b]]>> :
        a \in 1..Len(sel.lat), b \in 1..Len(sel.lon)}

\* a locator that reports the first cell of the selection
ArgMinFirstCell(field, sel) == <<1, 1>>

\* argmin(dim=['latitude', 'longitude']): the first minimum in row-major
\* order of the selection, as positions <<a, b>> in the selection
ArgMin(field, sel) ==
    LET pos == (1..Len(sel.lat)) \X (1..Len(sel.lon))
        val(p) == field[sel.lat[p[1]]][sel.lon[p[2]]]
        mins == {p \in pos : \A q \in pos : val(p) <= val(q)}
    IN CHOOSE p \in mins :
           \A q \in mins : p[1] < q[1] \/ (p[1] = q[1] /\ p[2] <= q[2])

\* local.min()
LocalMin(field, sel) ==
    SetMin({field[sel.lat[a]][sel.lon[b]] : a \in 1..Len(sel.lat), b \in 1..Len(sel.lon)})

\* local.max()
LocalMax(field, sel) ==
    SetMax({field[sel.lat[a]][sel.lon[b]] : a \in 1..Len(sel.lat), b \in 1..Len(sel.lon)})

\* a centre whose latitude is read off the whole grid's axis at the position
\* of the minimum within the selection
CenterOnGridAxis(d, t, sel) ==
    LET min_idx == ArgMin(d.mslp[t], sel)
    IN [latitude  |-> d.latitude[min_idx[1]],
        longitude |-> d.longitude[sel.lon[min_idx[2]]],
        min_pressure |-> LocalMin(d.mslp[t], sel)]

\* centre of the selection: coordinates of the minimum and its value
Center(d, t, sel) ==
    LET min_idx == ArgMin(d.mslp[t], sel)
    IN [latitude  |-> d.latitude[sel.lat[min_idx[1]]],
        longitude |-> d.longitude[sel.lon[min_idx[2]]],
        min_pressure |-> LocalMin(d.mslp[t], sel)]

-----------------------------------------------------------------------------
(* 11_calculate_typhoon_intensity.py: get_intensity_category                *)
(* wind_speed_ms in thousandths of a m/s; returns <<category, colour>>      *)

get_intensity_category(wind_speed_ms) ==
    IF wind_speed_ms < 10800 THEN <<"Low Pressure (<10.8)", "gray">>
    ELSE IF 10800 <= wind_speed_ms /\ wind_speed_ms <= 17100
        THEN <<"Tropical Depression (TD)", "skyblue">>
    ELSE IF 17200 <= wind_speed_ms /\ wind_speed_ms <= 24400
        THEN <<"Tropical Storm (TS)", "blue">>
    ELSE IF 24500 <= wind_speed_ms /\ wind_speed_ms <= 32600
        THEN <<"Severe Tropical Storm (STS)", "green">>
    ELSE IF 32700 <= wind_speed_ms /\ wind_speed_ms <= 41400
        THEN <<"Typhoon (TY)", "yellow">>
    ELSE IF 41500 <= wind_speed_ms /\ wind_speed_ms <= 50900
        THEN <<"Severe Typhoon (STY)", "orange">>
    ELSE <<"Super Typhoon (SuperTY)", "red">>

\* max_wind = raw_max_wind * correction_factor (hundredths times tenths)
Corrected(raw, factor) == raw * factor

-----------------------------------------------------------------------------
(* Configuration and start of the two entry points                          *)

\* config.get(key, default) on the loaded mapping
ConfigGet(cfg, key, default) == IF key \in DOMAIN cfg THEN cfg[key] ELSE default

\* SEARCH_RADIUS = config.get('search_radius_deg', 3.0), in both entry points
MainSearchRadius(cfg) == ConfigGet(cfg, "search_radius_deg", 3)

\* CORRECTION_FACTOR = config.get('correction_factor', 1.4), in tenths
MainCorrectionFactor(cfg) == ConfigGet(cfg, "correction_factor", 14)

\* a tracking radius that is the entry point's default wind radius
tracking_radius_wind == MainSearchRadius([start_lat |-> 17, start_lon |-> 134])

\* tracking_radius = 5.0 of calculate_intensity
tracking_radius == 5

\* search_radius_deg=5.0, the default verify_track_step is called with
verify_radius == 5

\* the radius of the pressure search of the running script
TrackRadius == IF prog = "track" THEN search_radius_deg ELSE tracking_radius

Seeds == {<<0, 100>>, <<6, 106>>, <<8, 104>>, <<30, 104>>}

\* 8_9_track.yaml as loaded: the seed, with or without a radius
TrackConfigs ==
    {[start_lat |-> s[1], start_lon |-> s[2]] : s \in Seeds}
    \cup {[start_lat |-> s[1], start_lon |-> s[2], search_radius_deg |-> r] :
             s \in Seeds, r \in {0, 5}}

\* 11_wind.yaml as loaded: a seed near the storm with or without radius and
\* factor, one with a negative radius, and a seed far from the grid
IntensityConfigs ==
    { [start_lat |-> 6, start_lon |-> 106],
      [start_lat |-> 6, start_lon |-> 106, search_radius_deg |-> 5],
      [start_lat |-> 6, start_lon |-> 106, correction_factor |-> 10],
      [start_lat |-> 6, start_lon |-> 106, search_radius_deg |-> 5,
       correction_factor |-> 10],
      [start_lat |-> 6, start_lon |-> 106, search_radius_deg |-> -1],
      [start_lat |-> 30, start_lon |-> 104] }

StoredAxes == {LatAsc, Reverse(LatAsc)} \X {LonAsc, Reverse(LonAsc)}

\* the variables a dataset of the run may hold
VarSets == {AllVars} \cup {AllVars \ {x} : x \in AllVars}

\* Python's None
None == [none |-> TRUE]

\* the variables of the scripts that do not run
IdleTrack ==
    /\ config = None /\ ds = None
    /\ start_lat = 0 /\ start_lon = 0 /\ search_radius_deg = 0
    /\ current_lat = 0 /\ current_lon = 0 /\ step = 0
    /\ track_data = <<>> /\ results = <<>> /\ searches = <<>>
    /\ wind_searches = <<>> /\ verified = <<>> /\ outputs = {} /\ error = "none"

IdleCat == raw_max_wind = 0 /\ max_wind = 0 /\ intensity_cat = None

IdleComb ==
    /\ found = {} /\ file_paths = <<>> /\ datasets = <<>>
    /\ valid_datasets = <<>> /\ combined_ds = None /\ saved = None

\* state of either script once the configuration is read and the file opened
Start(cfg, d) ==
    /\ config = cfg
    /\ ds = d
    /\ start_lat = cfg.start_lat
    /\ start_lon = cfg.start_lon
    /\ search_radius_deg = MainSearchRadius(cfg)
    /\ correction_factor = MainCorrectionFactor(cfg)
    /\ current_lat = cfg.start_lat
    /\ current_lon = cfg.start_lon
    /\ pc = "open"
    /\ step = 0
    /\ track_data = <<>>
    /\ results = <<>>
    /\ searches = <<>>
    /\ wind_searches = <<>>
    /\ verified = <<>>
    /\ outputs = {}
    /\ error = "none"

\* the wind field the tracking script never reads
NoWind == [t \in 1..NT |-> [cell |-> <<0, 100>>, wind |-> CalmWind]]

InitTrack ==
    /\ prog = "track"
    /\ \E cfg \in TrackConfigs, ax \in StoredAxes,
          lows \in [1..NT -> LowSets], vs \in VarSets :
          /\ vs = AllVars
                \/ (ax = <<LatAsc, LonAsc>> /\ cfg.start_lat = 0
                      /\ \A t \in 1..NT : lows[t] = {<<0, 100>>})
          /\ Start(cfg, MakeDataset(ax[1], ax[2], lows, NoWind, vs))

IntensityLowSets == {{<<0, 100>>}, {<<4, 108>>}, {<<0, 100>>, <<8, 104>>}}

InitIntensity ==
    /\ prog = "intensity"
    /\ \E cfg \in IntensityConfigs, ax \in StoredAxes,
          lows \in [1..NT -> IntensityLowSets], winds \in [1..NT -> WindParams],
          vs \in VarSets :
          /\ vs = AllVars
                \/ (ax = <<LatAsc, LonAsc>> /\ cfg.start_lat = 6
                      /\ \A t \in 1..NT : lows[t] = {<<0, 100>>} /\ winds[t].wind = CalmWind)
          /\ Start(cfg, MakeDataset(ax[1], ax[2], lows, winds, vs))

Init == (InitTrack \/ InitIntensity) /\ IdleCat /\ IdleComb

-----------------------------------------------------------------------------
(* 8_track_typhoon.py: track_typhoon                                        *)

\* the record of one pressure search: the centre used and what it selected
Search(d, c_lat, c_lon, radius) ==
    [lat |-> c_lat, lon |-> c_lon, radius |-> radius,
     cells |-> SelCells(d, Sel(d, Window(c_lat, c_lon, radius)))]

\* a row stamped with the first time of the axis
TrackRowFirstTime(t, center) ==
    [time |-> ds.time[1], latitude |-> center.latitude,
     longitude |-> center.longitude, min_pressure |-> center.min_pressure]

\* the row appended for time t
TrackRow(t, center) ==
    [time |-> t, latitude |-> center.latitude, longitude |-> center.longitude,
     min_pressure |-> center.min_pressure]

\* an update that keeps searching around the seed
NextCurrentStale(center) == <<start_lat, start_lon>>

\* current_lat, current_lon for the next iteration
NextCurrent(center) == <<center.latitude, center.longitude>>

\* an empty selection that skips the time step instead of stopping
AfterEmptyContinue == "loop"

\* where the loop goes after an empty selection: break
AfterEmpty == "done"

\* mslp = ds['mean_sea_level_pressure'] raises KeyError when it is missing
TrackOpen ==
    /\ prog = "track" /\ pc = "open"
    /\ IF "mean_sea_level_pressure" \in ds.vars
       THEN pc' = "loop" /\ error' = error
       ELSE pc' = "failed" /\ error' = "KeyError"
    /\ UNCHANGED <<catVars, combVars, prog, config, ds, start_lat, start_lon, search_radius_deg,
                   correction_factor, current_lat, current_lon, step, track_data,
                   results, searches, wind_searches, verified, outputs>>

\* one iteration that finds data in the search box
TrackFound ==
    /\ prog = "track" /\ pc = "loop" /\ step < Len(ds.time)
    /\ LET t == ds.time[step + 1]
           sel == Sel(ds, Window(current_lat, current_lon, search_radius_deg))
       IN /\ Size(sel) # 0
          /\ track_data' = Append(track_data, TrackRow(t, Center(ds, t, sel)))
          /\ current_lat' = NextCurrent(Center(ds, t, sel))[1]
          /\ current_lon' = NextCurrent(Center(ds, t, sel))[2]
    /\ searches' = Append(searches, Search(ds, current_lat, current_lon, search_radius_deg))
    /\ step' = step + 1
    /\ UNCHANGED <<catVars, combVars, prog, pc, config, ds, start_lat, start_lon, search_radius_deg,
                   correction_factor, results, wind_searches, verified, outputs, error>>

\* one iteration whose search box holds no data: warn and break
TrackLost ==
    /\ prog = "track" /\ pc = "loop" /\ step < Len(ds.time)
    /\ Size(Sel(ds, Window(current_lat, current_lon, search_radius_deg))) = 0
    /\ searches' = Append(searches, Search(ds, current_lat, current_lon, search_radius_deg))
    /\ step' = step + 1
    /\ pc' = AfterEmpty
    /\ UNCHANGED <<catVars, combVars, prog, config, ds, start_lat, start_lon, search_radius_deg,
                   correction_factor, current_lat, current_lon, track_data,
                   results, wind_searches, verified, outputs, error>>

\* the time axis is exhausted: return the frame
TrackEnd ==
    /\ prog = "track" /\ pc = "loop" /\ step = Len(ds.time)
    /\ pc' = "done"
    /\ UNCHANGED <<catVars, combVars, prog, config, ds, start_lat, start_lon, search_radius_deg,
                   correction_factor, current_lat, current_lon, step, track_data,
                   results, searches, wind_searches, verified, outputs, error>>

-----------------------------------------------------------------------------
(* 9_verify_tracking.py: verify_track_step, called for each row of the      *)
(* track in turn (at most ten rows are plotted; the model has fewer)        *)

VerifyStep ==
    /\ prog = "track" /\ pc = "done" /\ Len(verified) < Len(track_data)
    /\ LET row == track_data[Len(verified) + 1]
       IN verified' = Append(verified,
                             Search(ds, row.latitude, row.longitude, verify_radius))
    /\ UNCHANGED <<catVars, combVars, prog, pc, config, ds, start_lat, start_lon, search_radius_deg,
                   correction_factor, current_lat, current_lon, step, track_data,
                   results, searches, wind_searches, outputs, error>>

-----------------------------------------------------------------------------
(* 11_calculate_typhoon_intensity.py: calculate_intensity and entry point   *)

\* the window the maximum wind is searched in: around this step's centre
WindSearch(d, center, radius) ==
    Search(d, center.latitude, center.longitude, radius)

\* a maximum wind that is reported without the correction
MaxWindUncorrected(d, t, center, radius, factor) ==
    LET w_sel == Sel(d, Window(center.latitude, center.longitude, radius))
    IN IF Size(w_sel) > 0 THEN Corrected(LocalMax(WindSpeed(d)[t], w_sel), 10) ELSE 0

\* a maximum wind that takes the fallback unless the window has neighbours
MaxWindNeedsNeighbours(d, t, center, radius, factor) ==
    LET w_sel == Sel(d, Window(center.latitude, center.longitude, radius))
    IN IF Size(w_sel) > 1
       THEN Corrected(LocalMax(WindSpeed(d)[t], w_sel), factor)
       ELSE 0

\* max_wind: the corrected maximum of the wind window, 0.0 if it is empty
MaxWind(d, t, center, radius, factor) ==
    LET w_sel == Sel(d, Window(center.latitude, center.longitude, radius))
    IN IF Size(w_sel) > 0
       THEN Corrected(LocalMax(WindSpeed(d)[t], w_sel), factor)
       ELSE 0

\* the row appended for time t
IntensityRow(d, t, center, radius, factor) ==
    LET wind == MaxWind(d, t, center, radius, factor)
    IN [time |-> t,
        latitude |-> center.latitude,
        longitude |-> center.longitude,
        min_pressure_pa |-> center.min_pressure,
        max_wind_speed_ms |-> wind,
        intensity_category |-> get_intensity_category(wind)[1],
        intensity_color |-> get_intensity_category(wind)[2]]

\* a pressure window that follows the wind radius
IntensityWindowShared(c_lat, c_lon, radius) == Window(c_lat, c_lon, radius)

\* the pressure window of calculate_intensity: tracking_radius around the
\* current estimate, whatever search_radius_deg was passed
IntensityWindow(c_lat, c_lon, radius) == Window(c_lat, c_lon, tracking_radius)

\* a wind check that looks for one component only
WindVarsOnlyU == {"u_component_of_wind_10m"}

\* the variables whose absence makes the wind check raise ValueError
WindVars == {"u_component_of_wind_10m", "v_component_of_wind_10m"}

\* the wind check, then mslp = ds['mean_sea_level_pressure']
IntensityOpen ==
    /\ prog = "intensity" /\ pc = "open"
    /\ IF ~(WindVars \subseteq ds.vars)
       THEN pc' = "failed" /\ error' = "ValueError"
       ELSE IF "mean_sea_level_pressure" \notin ds.vars
       THEN pc' = "failed" /\ error' = "KeyError"
       ELSE pc' = "loop" /\ error' = error
    /\ UNCHANGED <<catVars, combVars, prog, config, ds, start_lat, start_lon, search_radius_deg,
                   correction_factor, current_lat, current_lon, step, track_data,
                   results, searches, wind_searches, verified, outputs>>

\* one iteration that finds a centre: the row of this time step
IntensityFound ==
    /\ prog = "intensity" /\ pc = "loop" /\ step < Len(ds.time)
    /\ LET t == ds.time[step + 1]
           sel == Sel(ds, IntensityWindow(current_lat, current_lon, search_radius_deg))
       IN /\ Size(sel) # 0
          /\ current_lat' = NextCurrent(Center(ds, t, sel))[1]
          /\ current_lon' = NextCurrent(Center(ds, t, sel))[2]
          /\ wind_searches' = Append(wind_searches,
                                     WindSearch(ds, Center(ds, t, sel), search_radius_deg))
          /\ results' = Append(results,
                               IntensityRow(ds, t, Center(ds, t, sel),
                                            search_radius_deg, correction_factor))
    /\ searches' = Append(searches, Search(ds, current_lat, current_lon, tracking_radius))
    /\ step' = step + 1
    /\ UNCHANGED <<catVars, combVars, prog, pc, config, ds, start_lat, start_lon, search_radius_deg,
                   correction_factor, track_data, verified, outputs, error>>

\* one iteration whose pressure window holds no data: break, silently
IntensityLost ==
    /\ prog = "intensity" /\ pc = "loop" /\ step < Len(ds.time)
    /\ Size(Sel(ds, IntensityWindow(current_lat, current_lon, search_radius_deg))) = 0
    /\ searches' = Append(searches, Search(ds, current_lat, current_lon, tracking_radius))
    /\ step' = step + 1
    /\ pc' = AfterEmpty
    /\ UNCHANGED <<catVars, combVars, prog, config, ds, start_lat, start_lon, search_radius_deg,
                   correction_factor, current_lat, current_lon, track_data,
                   results, wind_searches, verified, outputs, error>>

\* the time axis is exhausted: return the frame
IntensityEnd ==
    /\ prog = "intensity" /\ pc = "loop" /\ step = Len(ds.time)
    /\ pc' = "done"
    /\ UNCHANGED <<catVars, combVars, prog, config, ds, start_lat, start_lon, search_radius_deg,
                   correction_factor, current_lat, current_lon, step, track_data,
                   results, searches, wind_searches, verified, outputs, error>>

\* the entry point after the call: the report selects columns by name, which
\* raises KeyError on a frame without rows; then to_csv and the plot
IntensityReport ==
    /\ prog = "intensity" /\ pc = "done"
    /\ IF results = <<>>
       THEN pc' = "failed" /\ error' = "KeyError" /\ outputs' = outputs
       ELSE pc' = "saved" /\ error' = error /\ outputs' = {"csv", "png"}
    /\ UNCHANGED <<catVars, combVars, prog, config, ds, start_lat, start_lon, search_radius_deg,
                   correction_factor, current_lat, current_lon, step, track_data,
                   results, searches, wind_searches, verified>>

-----------------------------------------------------------------------------
(* The two functions taken as a whole: the frame each returns for a dataset *)
(* that holds the variables it reads                                        *)

RECURSIVE TrackFrom(_, _, _, _, _)
\* the rows track_typhoon appends from time step k on, the estimate being
\* <<c_lat, c_lon>>: none once the axis is exhausted or a window is empty
TrackFrom(d, k, c_lat, c_lon, radius) ==
    IF k > Len(d.time) THEN <<>>
    ELSE LET sel == Sel(d, Window(c_lat, c_lon, radius))
         IN IF Size(sel) = 0 THEN <<>>
            ELSE LET center == Center(d, d.time[k], sel)
                 IN <<TrackRow(d.time[k], center)>>
                        \o TrackFrom(d, k + 1, NextCurrent(center)[1],
                                     NextCurrent(center)[2], radius)

\* track_typhoon(file_path, start_lat, start_lon, search_radius_deg)
track_typhoon(d, s_lat, s_lon, radius) == TrackFrom(d, 1, s_lat, s_lon, radius)

RECURSIVE IntensityFrom(_, _, _, _, _, _)
\* the rows calculate_intensity appends from time step k on
IntensityFrom(d, k, c_lat, c_lon, radius, factor) ==
    IF k > Len(d.time) THEN <<>>
    ELSE LET sel == Sel(d, IntensityWindow(c_lat, c_lon, radius))
         IN IF Size(sel) = 0 THEN <<>>
            ELSE LET center == Center(d, d.time[k], sel)
                 IN <<IntensityRow(d, d.time[k], center, radius, factor)>>
                        \o IntensityFrom(d, k + 1, NextCurrent(center)[1],
                                         NextCurrent(center)[2], radius, factor)

\* calculate_intensity(file_path, None, start_lat, start_lon,
\*                     search_radius_deg, correction_factor)
calculate_intensity(d, s_lat, s_lon, radius, factor) ==
    IntensityFrom(d, 1, s_lat, s_lon, radius, factor)

-----------------------------------------------------------------------------

Next ==
    \/ TrackOpen \/ TrackFound \/ TrackLost \/ TrackEnd \/ VerifyStep
    \/ IntensityOpen \/ IntensityFound \/ IntensityLost \/ IntensityEnd
    \/ IntensityReport

Spec == Init /\ [][Next]_vars

-----------------------------------------------------------------------------
(* The classification of one corrected wind maximum, lines 176-190 of       *)
(* calculate_intensity taken alone                                          *)

RawWinds == 0..MaxRawWind

Factors == 10..MaxFactor

InitCategory ==
    /\ prog = "category" /\ pc = "correct"
    /\ raw_max_wind \in RawWinds
    /\ correction_factor \in Factors
    /\ max_wind = 0 /\ intensity_cat = None
    /\ IdleTrack /\ IdleComb

\* max_wind = raw_max_wind * correction_factor
ApplyCorrection ==
    /\ prog = "category" /\ pc = "correct"
    /\ max_wind' = Corrected(raw_max_wind, correction_factor)
    /\ pc' = "categorize"
    /\ UNCHANGED <<combVars, prog, config, ds, start_lat, start_lon, search_radius_deg,
                   correction_factor, current_lat, current_lon, step, track_data,
                   results, searches, wind_searches, verified, outputs, error,
                   raw_max_wind, intensity_cat>>

\* intensity_cat, intensity_color = get_intensity_category(max_wind)
Categorize ==
    /\ prog = "category" /\ pc = "categorize"
    /\ intensity_cat' = get_intensity_category(max_wind)
    /\ pc' = "done"
    /\ UNCHANGED <<combVars, prog, config, ds, start_lat, start_lon, search_radius_deg,
                   correction_factor, current_lat, current_lon, step, track_data,
                   results, searches, wind_searches, verified, outputs, error,
                   raw_max_wind, max_wind>>

NextCategory == ApplyCorrection \/ Categorize

SpecCategory == InitCategory /\ [][NextCategory]_vars

-----------------------------------------------------------------------------
(* 4_combine_netcdf.py and 6_combing_Latitude_and_longitude.py              *)
(* A file is named by the fields of its time string, the text between       *)
(* "output_surface_" and ".nc" split at "-"; every field is written with    *)
(* its full width, so names compare as their field sequences do.            *)

FileNames ==
    { <<2018, 10, 1, 6, 0>>, <<2018, 10, 1, 12, 0>>, <<2018, 10, 2, 0, 0>>,
      <<2018, 2, 30, 0, 0>>, <<2018, 13, 1, 0, 0>>, <<2018, 10, 1, 24, 0>>,
      <<2018, 10, 1, 6>> }

IsLeap(y) == (y % 4 = 0 /\ y % 100 # 0) \/ y % 400 = 0

DaysInMonth(y, m) ==
    IF m = 2 THEN (IF IsLeap(y) THEN 29 ELSE 28)
    ELSE IF m \in {4, 6, 9, 11} THEN 30 ELSE 31

\* whether datetime.strptime(time_str, "%Y-%m-%d-%H-%M") returns a value;
\* it raises ValueError on any other text
Parses(name) ==
    /\ Len(name) = 5
    /\ name[1] \in 1..9999
    /\ name[2] \in 1..12
    /\ name[3] \in 1..DaysInMonth(name[1], name[2])
    /\ name[4] \in 0..23
    /\ name[5] \in 0..59

\* the datetime strptime returns
strptime(name) ==
    [year |-> name[1], month |-> name[2], day |-> name[3],
     hour |-> name[4], minute |-> name[5]]

\* order of two file names as strings: the first differing field decides; a
\* name that ends where the other goes on continues with ".nc" against "-",
\* and "-" sorts first
NameLess(a, b) ==
    \E k \in 1..(Min2(Len(a), Len(b)) + 1) :
        /\ \A j \in 1..(k - 1) : a[j] = b[j]
        /\ IF k <= Len(a) /\ k <= Len(b) THEN a[k] < b[k]
           ELSE k <= Len(a) /\ k > Len(b)

\* sorted(glob.glob(search_pattern))
SortedPaths(S) ==
    CHOOSE seq \in [1..Cardinality(S) -> S] :
        \A j, k \in 1..Cardinality(S) : j < k => NameLess(seq[j], seq[k])

\* a preprocessing that takes the name's fields without validating them
add_time_coordinate_unchecked(name, file) ==
    [source |-> name, time |-> <<strptime(name \o <<0, 0, 0, 0, 0>>)>>,
     latitude |-> file.latitude, longitude |-> file.longitude]

\* add_time_coordinate: the dataset with its one-entry time axis, or None
add_time_coordinate(name, file) ==
    IF Parses(name)
    THEN [source |-> name, time |-> <<strptime(name)>>,
          latitude |-> file.latitude, longitude |-> file.longitude]
    ELSE None

\* xr.concat(valid_datasets, dim="time")
Concat(dss) ==
    [time |-> [k \in 1..Len(dss) |-> dss[k].time[1]],
     latitude |-> dss[1].latitude, longitude |-> dss[1].longitude]

\* the region filter of the second script: 10N-50N, 90E-160E
RegionSlice(d) ==
    IF d.latitude[1] > d.latitude[2]
    THEN [start |-> 50, stop |-> 10]
    ELSE [start |-> 10, stop |-> 50]

Region(d) ==
    [time |-> d.time,
     latitude |-> [k \in 1..Len(SliceSel(d.latitude, RegionSlice(d))) |->
                      d.latitude[SliceSel(d.latitude, RegionSlice(d))[k]]],
     longitude |-> [k \in 1..Len(SliceSel(d.longitude, [start |-> 90, stop |-> 160])) |->
                      d.longitude[SliceSel(d.longitude, [start |-> 90, stop |-> 160])[k]]]]

\* the grid every decoded file holds
FileLat == <<60, 40, 20, 0>>

FileLon == <<80, 120, 160, 200>>

InitCombine ==
    /\ prog \in {"combine", "combine_region"}
    /\ pc = "glob"
    /\ found \in {S \in SUBSET FileNames : Cardinality(S) <= MaxFiles}
    /\ \E lats \in {FileLat, Reverse(FileLat)} :
          /\ prog = "combine" => lats = FileLat
          /\ ds = [latitude |-> lats, longitude |-> FileLon]
    /\ file_paths = <<>> /\ datasets = <<>> /\ valid_datasets = <<>>
    /\ combined_ds = None /\ saved = None
    /\ config = None
    /\ start_lat = 0 /\ start_lon = 0 /\ search_radius_deg = 0
    /\ correction_factor = 0
    /\ current_lat = 0 /\ current_lon = 0 /\ step = 0
    /\ track_data = <<>> /\ results = <<>> /\ searches = <<>>
    /\ wind_searches = <<>> /\ verified = <<>> /\ outputs = {} /\ error = "none"
    /\ IdleCat

\* the sorted file list; exit() when the pattern matches nothing
Glob ==
    /\ prog \in {"combine", "combine_region"} /\ pc = "glob"
    /\ file_paths' = SortedPaths(found)
    /\ pc' = IF SortedPaths(found) = <<>> THEN "exit" ELSE "open"
    /\ UNCHANGED <<trackVarsButPc, catVars, found, datasets, valid_datasets,
                   combined_ds, saved>>

\* datasets = [add_time_coordinate(xr.open_dataset(fp)) for fp in file_paths]
OpenAll ==
    /\ prog \in {"combine", "combine_region"} /\ pc = "open"
    /\ datasets' = [k \in 1..Len(file_paths) |-> add_time_coordinate(file_paths[k], ds)]
    /\ pc' = "filter"
    /\ UNCHANGED <<trackVarsButPc, catVars, found, file_paths, valid_datasets,
                   combined_ds, saved>>

\* drop the None entries; exit() when nothing is left
FilterValid ==
    /\ prog \in {"combine", "combine_region"} /\ pc = "filter"
    /\ LET valid(d) == d # None
       IN /\ valid_datasets' = SelectSeq(datasets, valid)
          /\ pc' = IF SelectSeq(datasets, valid) = <<>> THEN "exit" ELSE "concat"
    /\ UNCHANGED <<trackVarsButPc, catVars, found, file_paths, datasets,
                   combined_ds, saved>>

\* combined_ds = xr.concat(valid_datasets, dim="time")
ConcatAll ==
    /\ prog \in {"combine", "combine_region"} /\ pc = "concat"
    /\ combined_ds' = Concat(valid_datasets)
    /\ pc' = IF prog = "combine" THEN "save" ELSE "region"
    /\ UNCHANGED <<trackVarsButPc, catVars, found, file_paths, datasets,
                   valid_datasets, saved>>

\* filtered_ds = combined_ds.sel(latitude=lat_slice, longitude=slice(90, 160))
\* and to_netcdf, in the second script
RegionSave ==
    /\ prog = "combine_region" /\ pc = "region"
    /\ saved' = Region(combined_ds)
    /\ pc' = "done"
    /\ UNCHANGED <<trackVarsButPc, catVars, found, file_paths, datasets,
                   valid_datasets, combined_ds>>

\* combined_ds.to_netcdf(output_filepath), in the first script
Save ==
    /\ prog = "combine" /\ pc = "save"
    /\ saved' = combined_ds
    /\ pc' = "done"
    /\ UNCHANGED <<trackVarsButPc, catVars, found, file_paths, datasets,
                   valid_datasets, combined_ds>>

NextCombine == Glob \/ OpenAll \/ FilterValid \/ ConcatAll \/ RegionSave \/ Save

SpecCombine == InitCombine /\ [][NextCombine]_vars

-----------------------------------------------------------------------------
(* Properties                                                               *)

\* the rows produced so far by the running script
Rows == IF prog = "track" THEN track_data ELSE results

RowCell(row) == <<row.latitude, row.longitude>>

RowPressure(row) == IF prog = "track" THEN row.min_pressure ELSE row.min_pressure_pa

\* the grid cells of the inclusive square of half-width radius around a centre
SquareCells(d, c_lat, c_lon, radius) ==
    {c \in GridCells(d) : Abs(c[1] - c_lat) <= radius /\ Abs(c[2] - c_lon) <= radius}

\* the centre the search of step k started from: the seed, then the last row
PrevCell(k) == IF k = 1 THEN <<start_lat, start_lon>> ELSE RowCell(Rows[k - 1])

\* C1: every row is a cell of the square window searched at its step, holds
\* that cell's pressure at its time, which no cell of the window undercuts;
\* a window with a single strict minimum yields exactly that cell.
C1_RowIsWindowMinimum ==
    \A k \in 1..Len(Rows) :
        LET row == Rows[k]
            win == SquareCells(ds, searches[k].lat, searches[k].lon, TrackRadius)
        IN /\ row.time = ds.time[k]
           /\ RowCell(row) \in win
           /\ RowPressure(row) = PressureAt(ds, row.time, RowCell(row))
           /\ \A c \in win : RowPressure(row) <= PressureAt(ds, row.time, c)
           /\ \A m \in win :
                 (\A c \in win \ {m} : PressureAt(ds, row.time, m) < PressureAt(ds, row.time, c))
                     => RowCell(row) = m

\* a row found in a window of several cells with one strict minimum, while a
\* deeper low lies outside the window
C1_Witness ==
    \E k \in 1..Len(Rows) :
        LET row == Rows[k]
            win == SquareCells(ds, searches[k].lat, searches[k].lon, TrackRadius)
        IN /\ Cardinality(win) > 1
           /\ \A c \in win \ {RowCell(row)} : RowPressure(row) < PressureAt(ds, row.time, c)
           /\ \E c \in GridCells(ds) \ win : PressureAt(ds, row.time, c) < RowPressure(row)

\* C2: the search of step k is centred on the previous row (on the seed at
\* the first step), row k is the minimum found from there in the field of
\* time k, and it lies within the radius of the previous position.
C2_FirstOrderRecurrence ==
    /\ \A k \in 1..Len(searches) :
          <<searches[k].lat, searches[k].lon>> = PrevCell(k)
    /\ \A k \in 1..Len(Rows) :
          LET from == PrevCell(k)
              here == Center(ds, ds.time[k], Sel(ds, Window(from[1], from[2], TrackRadius)))
          IN /\ RowCell(Rows[k]) = <<here.latitude, here.longitude>>
             /\ RowPressure(Rows[k]) = here.min_pressure
             /\ Abs(Rows[k].latitude - from[1]) <= TrackRadius
             /\ Abs(Rows[k].longitude - from[2]) <= TrackRadius
    /\ pc = "loop" => <<current_lat, current_lon>> = PrevCell(Len(Rows) + 1)

\* two rows, the centre having moved off the seed and then again
C2_Witness ==
    /\ Len(Rows) >= 2
    /\ RowCell(Rows[1]) # <<start_lat, start_lon>>
    /\ RowCell(Rows[2]) # RowCell(Rows[1])
    /\ RowCell(Rows[2]) # <<start_lat, start_lon>>

\* the first step whose selection was empty, 0 if there is none
FirstEmpty ==
    IF \E k \in 1..Len(searches) : searches[k].cells = {}
    THEN SetMin({k \in 1..Len(searches) : searches[k].cells = {}})
    ELSE 0

\* C3: when step k is the first with an empty window the loop is over, k
\* steps were consumed and none after it, the rows are those of steps
\* 1..k-1, and every search used the one radius.
C3_StopsAtFirstEmptyWindow ==
    /\ FirstEmpty # 0 =>
          /\ pc # "loop"
          /\ step = FirstEmpty
          /\ Len(searches) = FirstEmpty
          /\ Len(Rows) = FirstEmpty - 1
          /\ \A j \in 1..Len(Rows) : Rows[j].time = ds.time[j]
    /\ \A k \in 1..Len(searches) : searches[k].radius = TrackRadius

\* the run ended on an empty window with time steps left unprocessed
C3_Witness ==
    /\ FirstEmpty # 0
    /\ pc \in {"done", "failed"}
    /\ step < Len(ds.time)
    /\ Len(Rows) = FirstEmpty - 1

\* C6: the wind speed of a row is the correction factor times the largest
\* wind magnitude among the cells of the square of half-width
\* search_radius_deg around that row's own centre, and its category is the
\* category of that corrected speed.
C6_MaxWindOfSecondaryWindow ==
    prog = "intensity" =>
        \A k \in 1..Len(results) :
            LET row == results[k]
                win == SquareCells(ds, row.latitude, row.longitude, search_radius_deg)
            IN win # {} =>
                /\ row.max_wind_speed_ms =
                       correction_factor * SetMax({WindSpeedAt(ds, row.time, c) : c \in win})
                /\ <<row.intensity_category, row.intensity_color>> =
                       get_intensity_category(row.max_wind_speed_ms)
                /\ <<wind_searches[k].lat, wind_searches[k].lon>> = RowCell(row)
                /\ wind_searches[k].cells = win

\* a row whose window holds a wind stronger than the one at its centre but
\* not the whole grid, under a correction other than 1.0
C6_Witness ==
    /\ prog = "intensity"
    /\ correction_factor # 10
    /\ \E k \in 1..Len(results) :
          LET row == results[k]
              win == SquareCells(ds, row.latitude, row.longitude, search_radius_deg)
          IN /\ win # GridCells(ds)
             /\ row.max_wind_speed_ms >
                    correction_factor * WindSpeedAt(ds, row.time, RowCell(row))
             /\ row.intensity_category # "Low Pressure (<10.8)"

\* every selection made so far: pressure windows, wind windows, verifications
AllSearches ==
    {searches[k] : k \in 1..Len(searches)}
        \cup {wind_searches[k] : k \in 1..Len(wind_searches)}
        \cup {verified[k] : k \in 1..Len(verified)}

\* C7: each window selected the cells that the same window selects on the
\* grid stored with the latitude axis in the other order.
C7_SameCellsEitherLatitudeOrder ==
    \A s \in AllSearches :
        s.cells = Search(FlipLat(ds), s.lat, s.lon, s.radius).cells

\* on a grid stored with ascending latitude: a pressure window, and a
\* verification or a wind window, each holding some but not all cells
C7_Witness ==
    /\ ds.latitude[1] < ds.latitude[Len(ds.latitude)]
    /\ \E k \in 1..Len(searches) :
          searches[k].cells # {} /\ searches[k].cells # GridCells(ds)
    /\ \E s \in AllSearches \ {searches[k] : k \in 1..Len(searches)} :
          s.cells # {} /\ s.cells # GridCells(ds)

\* C8: each pressure window selected the cells that the same window selects
\* on the grid stored with ascending longitude, that is every cell within the
\* radius, and the loop stopped only on a window that holds no cell.
C8_LongitudeOrderDetected ==
    \A k \in 1..Len(searches) :
        LET s == searches[k]
            asc == IF IsIncreasing(ds.longitude) THEN ds ELSE FlipLon(ds)
        IN /\ s.cells = Search(asc, s.lat, s.lon, s.radius).cells
           /\ s.cells = {} => SquareCells(ds, s.lat, s.lon, s.radius) = {}

\* C9: on a dataset lacking the pressure or a wind component the intensity
\* script stops before the loop with an error, without a row or an output
\* (and so does the tracking script on a dataset lacking the pressure).
C9_MissingVariableIsFatal ==
    LET needed == IF prog = "intensity" THEN AllVars ELSE {"mean_sea_level_pressure"}
    IN ~(needed \subseteq ds.vars) =>
          /\ pc \in {"open", "failed"}
          /\ pc = "failed" => error \in {"ValueError", "KeyError"}
          /\ step = 0 /\ searches = <<>>
          /\ Rows = <<>>
          /\ outputs = {}

\* the intensity script failed on a dataset that lacks a wind component
C9_Witness ==
    /\ prog = "intensity"
    /\ "v_component_of_wind_10m" \notin ds.vars
    /\ pc = "failed" /\ error = "ValueError"
    /\ results = <<>> /\ outputs = {}

\* the categories in rising order of intensity
Categories ==
    << "Low Pressure (<10.8)", "Tropical Depression (TD)", "Tropical Storm (TS)",
       "Severe Tropical Storm (STS)", "Typhoon (TY)", "Severe Typhoon (STY)",
       "Super Typhoon (SuperTY)" >>

Rank(category) == CHOOSE k \in 1..Len(Categories) : Categories[k] = category

\* C4: a classified wind speed is "none" exactly below 10.8, TD exactly in
\* [10.8, 17.1], TS in [17.2, 24.4], STS in [24.5, 32.6], TY in [32.7, 41.4],
\* STY in [41.5, 50.9] and SuperTY exactly from 51.0 on.
C4_CategoryPartition ==
    pc = "done" =>
        LET w == max_wind
            c == intensity_cat[1]
        IN /\ c = "Low Pressure (<10.8)" <=> w < 10800
           /\ c = "Tropical Depression (TD)" <=> (10800 <= w /\ w <= 17100)
           /\ c = "Tropical Storm (TS)" <=> (17200 <= w /\ w <= 24400)
           /\ c = "Severe Tropical Storm (STS)" <=> (24500 <= w /\ w <= 32600)
           /\ c = "Typhoon (TY)" <=> (32700 <= w /\ w <= 41400)
           /\ c = "Severe Typhoon (STY)" <=> (41500 <= w /\ w <= 50900)
           /\ c = "Super Typhoon (SuperTY)" <=> w >= 51000

\* C5: for the raw wind maximum just classified, no larger correction factor
\* gives a lower category than the factor used.
C5_CorrectionMonotonic ==
    pc = "done" =>
        \A f2 \in Factors :
            f2 >= correction_factor =>
                Rank(get_intensity_category(Corrected(raw_max_wind, f2))[1])
                    >= Rank(intensity_cat[1])

\* the files of the run whose time string parses
Parseable == {n \in found : Parses(n)}

\* C10: the script ends without an error; it writes no output exactly when
\* no file parses, and otherwise the written grid has one time entry for
\* each file that parses, in the order of the sorted file names, and none
\* for the others.
C10_UnparseableFilesSkipped ==
    /\ pc # "failed" /\ error = "none"
    /\ pc = "exit" => Parseable = {} /\ saved = None
    /\ pc \in {"glob", "open", "filter", "concat", "region", "save"} => saved = None
    /\ pc = "filter" /\ Parseable = {} => \A k \in 1..Len(datasets) : datasets[k] = None
    /\ pc = "done" =>
          /\ Parseable # {}
          /\ Len(saved.time) = Cardinality(Parseable)
          /\ \A n \in Parseable : \E k \in 1..Len(saved.time) : saved.time[k] = strptime(n)
          /\ \A j, k \in 1..Len(saved.time) :
                j < k => \E a, b \in Parseable :
                            /\ saved.time[j] = strptime(a)
                            /\ saved.time[k] = strptime(b)
                            /\ NameLess(a, b)

\* a grid written from several files while another file was skipped
C10_Witness ==
    /\ pc = "done"
    /\ Cardinality(Parseable) >= 2
    /\ found # Parseable
    /\ Len(saved.time) = Cardinality(Parseable)

\* the time, latitude, longitude and pressure columns of an intensity frame
TrackColumns(rows) ==
    [k \in 1..Len(rows) |->
        [time |-> rows[k].time, latitude |-> rows[k].latitude,
         longitude |-> rows[k].longitude, min_pressure |-> rows[k].min_pressure_pa]]

\* wind radii and correction factors (in tenths) a second run may be given
OtherRadii == {-1, 3, 9}

OtherFactors == {10, 15}

\* C11: the frame calculate_intensity returned has as many rows, and the same
\* time, latitude, longitude and min_pressure in every row, as the frame of a
\* run on the same dataset from the same seed with any other wind radius and
\* correction factor.
C11_TrackIndependentOfWindParameters ==
    (prog = "intensity" /\ pc = "done") =>
        \A r \in OtherRadii, f \in OtherFactors :
            TrackColumns(calculate_intensity(ds, start_lat, start_lon, r, f))
                = TrackColumns(results)

\* a finished run of a row per time step whose centre moved, and a second run
\* with another radius and factor whose wind column differs in every row
C11_Witness ==
    /\ prog = "intensity" /\ pc = "done"
    /\ Len(results) = Len(ds.time)
    /\ RowCell(results[1]) # RowCell(results[Len(results)])
    /\ \E r \in OtherRadii \ {search_radius_deg}, f \in OtherFactors \ {correction_factor} :
          LET other == calculate_intensity(ds, start_lat, start_lon, r, f)
          IN \A k \in 1..Len(results) :
                 other[k].max_wind_speed_ms # results[k].max_wind_speed_ms

\* the loop of the running script is over, having run at least once
LoopOver == pc \notin {"open", "loop"} /\ searches # <<>>

\* C12: at every point of the run the rows carry, in order, the first times
\* of the dataset's time axis, one row per step processed short of an empty
\* window; once the loop is over either every time step has its row, or the
\* rows stop just before the first step whose window was empty.
C12_TrackIsTimePrefix ==
    /\ Len(Rows) <= Len(ds.time)
    /\ \A k \in 1..Len(Rows) : Rows[k].time = ds.time[k]
    /\ \A j, k \in 1..Len(Rows) : j < k => Rows[j].time < Rows[k].time
    /\ Len(Rows) = IF FirstEmpty = 0 THEN step ELSE step - 1
    /\ LoopOver =>
          \/ FirstEmpty = 0 /\ step = Len(ds.time) /\ Len(Rows) = Len(ds.time)
          \/ FirstEmpty # 0 /\ Len(Rows) = FirstEmpty - 1

\* the tracking loop ended after the last time step of an axis of several,
\* with a row for each
C12_Witness ==
    /\ prog = "track" /\ pc = "done"
    /\ FirstEmpty = 0
    /\ Len(ds.time) >= 2
    /\ Len(track_data) = Len(ds.time)
    /\ track_data[Len(track_data)].time = ds.time[Len(ds.time)]

\* C13: a tracking run whose configuration names no search radius searches
\* every window with a half-width of 5 degrees around the current estimate.
C13_DefaultTrackingRadiusIsFive ==
    (prog = "track" /\ "search_radius_deg" \notin DOMAIN config) =>
        \A k \in 1..Len(searches) : searches[k].radius = 5

\* C14: the time, latitude, longitude and min_pressure columns of the frame
\* calculate_intensity returned are, row for row and in length, the frame
\* track_typhoon returns for the same dataset and seed with a search radius
\* of 5 degrees; a tracking run made with that radius returned those columns
\* of calculate_intensity's frame.
C14_IntensityTrackIsTrackTyphoonAtFive ==
    /\ (prog = "intensity" /\ pc = "done") =>
           TrackColumns(results) = track_typhoon(ds, start_lat, start_lon, 5)
    /\ (prog = "track" /\ pc = "done" /\ search_radius_deg = 5
           /\ WindVars \subseteq ds.vars) =>
           track_data = TrackColumns(calculate_intensity(ds, start_lat, start_lon,
                                                         3, 14))

\* an intensity run with a wind radius other than 5 that returned a row per
\* time step, the centre off the seed and moving, while track_typhoon with a
\* radius of 3 returns another track
C14_Witness ==
    /\ prog = "intensity" /\ pc = "done"
    /\ search_radius_deg # 5
    /\ Len(results) = Len(ds.time)
    /\ RowCell(results[1]) # <<start_lat, start_lon>>
    /\ RowCell(results[1]) # RowCell(results[Len(results)])
    /\ track_typhoon(ds, start_lat, start_lon, 3) # TrackColumns(results)

\* C15: in an intensity run with a wind radius that is not negative, the wind
\* window of every row holds the row's own centre cell, so it is not empty,
\* and the row's wind speed is the correction factor times the wind magnitude
\* of some cell of that window (never the 0.0 of the fallback).
C15_WindWindowHoldsCentre ==
    (prog = "intensity" /\ search_radius_deg >= 0) =>
        \A k \in 1..Len(results) :
            LET row == results[k]
                cells == wind_searches[k].cells
            IN /\ RowCell(row) \in cells
               /\ Size(Sel(ds, Window(row.latitude, row.longitude, search_radius_deg))) > 0
               /\ \E c \in cells :
                     row.max_wind_speed_ms
                         = correction_factor * WindSpeedAt(ds, row.time, c)

\* the wind window of a row held the centre cell and nothing else, on a grid
\* where the radius is smaller than the spacing; and a radius of 0 or more
\* is needed: the negative radius leaves the window empty and the speed 0
C15_Witness ==
    /\ prog = "intensity"
    /\ search_radius_deg >= 0
    /\ \E k \in 1..Len(results) :
          /\ wind_searches[k].cells = {RowCell(results[k])}
          /\ results[k].max_wind_speed_ms > 0
          /\ MaxWind(ds, results[k].time,
                     [latitude |-> results[k].latitude,
                      longitude |-> results[k].longitude], -1, correction_factor) = 0

\* the cells of a window that hold its lowest pressure at time t
MinCells(d, t, cells) ==
    {c \in cells : \A q \in cells : PressureAt(d, t, c) <= PressureAt(d, t, q)}

\* no window searched so far held its lowest pressure in more than one cell
NoTies ==
    \A k \in 1..Len(searches) :
        Cardinality(MinCells(ds, ds.time[k], searches[k].cells)) <= 1

\* C16 as stated: the track returned is the track track_typhoon returns, from
\* the same seed with the same radius, on the grid holding the same field
\* with the latitude axis stored in the other order, tied minima included.
C16_SameTrackEitherLatitudeOrder ==
    (prog = "track" /\ pc = "done") =>
        track_typhoon(FlipLat(ds), start_lat, start_lon, search_radius_deg) = track_data

\* C16: when no window searched held its lowest pressure in more than one
\* cell, the track returned is the track track_typhoon returns, from the same
\* seed with the same radius, on the grid holding the same field with the
\* latitude axis stored in the other order.
C16_SameTrackEitherLatitudeOrderNoTies ==
    (prog = "track" /\ pc = "done" /\ NoTies) =>
        track_typhoon(FlipLat(ds), start_lat, start_lon, search_radius_deg) = track_data

\* a track of a row per time step, found without ties in windows that span
\* several latitudes, the centre moving to another latitude
C16_Witness ==
    /\ prog = "track" /\ pc = "done" /\ NoTies
    /\ Len(track_data) = Len(ds.time)
    /\ track_data[1].latitude # start_lat
    /\ track_data[Len(track_data)].latitude # track_data[1].latitude
    /\ \A k \in 1..Len(searches) :
          Cardinality({c[1] : c \in searches[k].cells}) > 1

====
